---- MODULE Spec2Model ----
(***************************************************************************)
(* Model of PasswordCracker (advanced_cracker.py): the orchestration of a  *)
(* dictionary search over one encrypted document.  The orchestrator runs   *)
(* crack(); workers run _worker() on one chunk each; the decryption probe  *)
(* _try_decrypt() is modelled by what it does with the outcome of the      *)
(* external library calls (load_key / decrypt) for a candidate.            *)
(***************************************************************************)
EXTENDS Integers, Sequences, FiniteSets, TLC

\* ---- bounds of the model ------------------------------------------------
MaxShort   == 3    \* longest "short" wordlist
MaxTail    == 1    \* candidates after the hybrid prefix in a "long" wordlist
MaxSpecial == 2    \* candidates whose library outcome is not InvalidKeyError
MaxFaults  == 1    \* worker-level faults in one run
MaxTimeouts == 1   \* waits of one run that time out
MaxSimpleLen == 3      \* longest wordlist given to main1.crack_multi_thread
MaxSimpleThreads == 3  \* largest num_threads given to main1.crack_multi_thread

\* ---- program constants --------------------------------------------------
PrefixLen == 100   \* passwords[:100] / passwords[100:]
ThreadCap == 32    \* max(1, min(threads, 32))

None     == "<None>"   \* Python's None (no candidate is this string)
EmptyStr == ""

Modes == {"single", "multi", "hybrid"}

\* the values drawn for the constructor's threads and chunk_size arguments
ThreadArgs == {1, 2}
ChunkSizes == {0, 1, 2}

\* What the external library does for one candidate:
\*   invalid : load_key/decrypt raises InvalidKeyError (wrong password)
\*   ok      : load_key and decrypt succeed, the decrypted file is non-empty
\*   empty   : load_key and decrypt succeed, the decrypted file has size 0
\*   error   : load_key/decrypt raises some other Exception
Kinds == {"invalid", "ok", "empty", "error"}

Encodings == <<"utf-8", "latin1", "ascii", "cp1252">>

\* what the worker's handler records for a failed open (str(e))
WorkerFault == "worker fault"

\* occurrences of x in the sequence s
Count(s, x) == Cardinality({j \in DOMAIN s : s[j] = x})

Min(a, b) == IF a < b THEN a ELSE b
Max(a, b) == IF a > b THEN a ELSE b

\* The i-th line of the wordlist (candidates are distinct non-empty strings).
Cand(i) == "pw" \o ToString(i)

\* __init__: self.threads = max(1, min(threads, 32))
ClampThreads(t) == Max(1, Min(t, ThreadCap))

\* passwords[a:b] for 0 <= a, as Python slices (clipped to the list).
Slice(s, a, b) == SubSeq(s, a + 1, Min(b, Len(s)))

\* Chunks as it would be with the chunk count rounded down (the last, short
\* chunk is lost).
ChunksRoundedDown(pw, cs) ==
  [k \in 1..(Len(pw) \div cs) |-> Slice(pw, (k - 1) * cs, (k - 1) * cs + cs)]

\* _crack_multi: [passwords[i:i + cs] for i in range(0, len(passwords), cs)], cs > 0
Chunks(pw, cs) ==
  [k \in 1..((Len(pw) + cs - 1) \div cs) |-> Slice(pw, (k - 1) * cs, (k - 1) * cs + cs)]

\* _try_decrypt: the loop over the four encodings; every iteration makes the
\* same library calls (the encoding is not passed on).  Returns the boolean
\* result and the strings appended to stats.errors.
RECURSIVE TryEnc(_, _, _, _)
TryEnc(k, verify, e, errs) ==
  IF e > Len(Encodings) THEN [ret |-> FALSE, errs |-> errs]
  ELSE IF k = "invalid" THEN TryEnc(k, verify, e + 1, errs)
  ELSE IF k = "error"
       THEN TryEnc(k, verify, e + 1, Append(errs, "Error with " \o Encodings[e]))
  ELSE IF verify /\ k = "ok" THEN [ret |-> TRUE, errs |-> errs]
  ELSE TryEnc(k, verify, e + 1, errs)

TryDecrypt(k, verify) == TryEnc(k, verify, 1, <<>>)

VARIABLES
  mode,         \* self.mode
  threads_arg,  \* the threads argument of the constructor
  threads,      \* self.threads (already clamped)
  chunk_size,   \* self.chunk_size
  verify_hash,  \* self.verify_hash
  passwords,    \* what _load_passwords returns
  kind,         \* candidate -> outcome of the library calls
  opc,          \* where crack() is: start, single, wait, shutdown, returned
  calls,        \* the phases crack() has entered so far
  chunks,       \* the chunk handed to each worker of the current phase
  wpc,          \* worker -> queued, open, check, call, probing, setfound, setpw,
                \*           inc, incstore, done
  widx,         \* worker -> index in its chunk of the current candidate
  shared,       \* shared_data of the current phase
  lock,         \* holder of the phase's lock, 0 when free
  stats,        \* self.stats
  waitIdx,      \* index of the future the orchestrator waits for
  timedOut,     \* futures whose future.result(timeout) raised TimeoutError
  result,       \* what crack() returns
  elapsed,      \* the configured timeout has run out (sequential phases)
  probes,       \* number of _try_decrypt invocations so far
  late,         \* worker -> probes it started while found was already True
  pwWrites,     \* number of writes to shared_data['password'] in this phase
  tmp,          \* worker -> the value of stats.attempts it loaded for "+= 1"
  trace,        \* worker -> what has happened to it (see FreshTrace)
  incs,         \* number of completed "attempts += 1" statements
  simple        \* the state of main1.crack_multi_thread (see SpecSimple)

vars == <<mode, threads_arg, threads, chunk_size, verify_hash, passwords, kind,
          opc, calls, chunks, wpc, widx, shared, lock, stats, waitIdx, timedOut,
          result, elapsed, probes, late, pwWrites, tmp, trace, incs, simple>>

config == <<mode, threads_arg, threads, chunk_size, verify_hash, passwords, kind,
            simple>>

\* the variables of the PasswordCracker run
cracker == <<mode, threads_arg, threads, chunk_size, verify_hash, passwords, kind,
             opc, calls, chunks, wpc, widx, shared, lock, stats, waitIdx,
             timedOut, result, elapsed, probes, late, pwWrites, tmp, trace, incs>>

Workers == DOMAIN chunks

FreshStats == [attempts |-> 0, errors |-> <<>>, success |-> FALSE,
               found_password |-> EmptyStr]
FreshShared == [found |-> FALSE, password |-> None]

\* What is recorded about one worker:
\*   begunLate : it entered _worker when found was already True
\*   lateDone  : probes of it that returned when found was already True
\*   faulted   : its open(...) raised
FreshTrace == [begunLate |-> FALSE, lateDone |-> 0, faulted |-> FALSE]

\* main1.crack_multi_thread is not running
SimpleOff == [pc |-> "off"]

\* ---- inputs -------------------------------------------------------------
\* Wordlists are short (0..MaxShort lines), or long: the hybrid prefix and up
\* to MaxTail lines after it.  Long wordlists are run in hybrid mode only.
Lens == (0..MaxShort) \cup (PrefixLen..(PrefixLen + MaxTail))

\* Positions whose library outcome may differ from InvalidKeyError: any line
\* of a short wordlist; the last line of the prefix and the lines after it in
\* a long one.
Special(n) == IF n <= MaxShort THEN 1..n ELSE PrefixLen..n

\* With verification off only wrong and right passwords are drawn.
SpecialKinds(verify) == IF verify THEN {"ok", "empty", "error"} ELSE {"ok"}

KindMaps(n, verify) ==
  { [c \in {Cand(i) : i \in 1..n} |->
       IF \E i \in S : c = Cand(i)
       THEN f[CHOOSE i \in S : c = Cand(i)] ELSE "invalid"] :
    S \in {T \in SUBSET Special(n) : Cardinality(T) <= MaxSpecial},
    f \in [Special(n) -> SpecialKinds(verify)] }

\* the state of a PasswordCracker after __init__, before crack() is called
Constructed ==
  /\ opc = "start"
  /\ calls = <<>>
  /\ chunks = <<>>
  /\ wpc = <<>>
  /\ widx = <<>>
  /\ shared = FreshShared
  /\ lock = 0
  /\ stats = FreshStats
  /\ waitIdx = 0
  /\ timedOut = {}
  /\ result = None
  /\ elapsed = FALSE
  /\ probes = 0
  /\ late = <<>>
  /\ pwWrites = 0
  /\ tmp = <<>>
  /\ trace = <<>>
  /\ incs = 0

Init ==
  /\ mode \in Modes
  /\ threads_arg \in ThreadArgs
  /\ threads = ClampThreads(threads_arg)
  /\ chunk_size \in ChunkSizes
  /\ verify_hash \in BOOLEAN
  /\ \E n \in Lens :
       /\ passwords = [i \in 1..n |-> Cand(i)]
       /\ kind \in KindMaps(n, verify_hash)
       /\ (n > MaxShort) => (mode = "hybrid")
  \* parameters a mode does not read are not varied
  /\ (mode = "single") => (chunk_size = 1 /\ threads_arg = 1)
  /\ (chunk_size = 0) => (mode = "multi")
  \* a candidate that decrypts to an empty file goes through _try_decrypt as a
  \* wrong one does; it is drawn for the runs with a sequential phase only
  /\ (mode = "multi") => \A c \in DOMAIN kind : kind[c] # "empty"
  /\ Constructed
  /\ simple = SimpleOff

phase == <<calls, chunks, wpc, widx, late, shared, lock, pwWrites, waitIdx, timedOut,
           tmp, trace>>

\* ---- crack(): the orchestrator ------------------------------------------

\* Return as it would be with "found_password = result" (no default for None).
ReturnWithoutDefault(r, st) ==
  /\ stats' = [st EXCEPT !.success = (r # None /\ r # EmptyStr),
                         !.found_password = r]
  /\ result' = r
  /\ opc' = "returned"

\* crack, lines 154-158: the normal return.
Return(r, st) ==
  /\ stats' = [st EXCEPT !.success = (r # None /\ r # EmptyStr),
                         !.found_password = IF r = None THEN EmptyStr ELSE r]
  /\ result' = r
  /\ opc' = "returned"

\* crack, lines 160-163: an exception reaches crack's handler.
Raise(msg, st) ==
  /\ stats' = [st EXCEPT !.errors = Append(@, msg)]
  /\ result' = None
  /\ opc' = "returned"

\* _crack_single up to the inline call of _worker (the worker then runs in
\* the orchestrator's own thread; the orchestrator resumes when it is done).
CallSingle(pw, st) ==
  /\ calls' = Append(calls, "single")
  /\ chunks' = <<pw>>
  /\ wpc' = <<"open">>
  /\ widx' = <<1>>
  /\ late' = <<0>>
  /\ tmp' = <<0>>
  /\ trace' = <<FreshTrace>>
  /\ shared' = FreshShared
  /\ lock' = 0
  /\ pwWrites' = 0
  /\ waitIdx' = 0
  /\ timedOut' = {}
  /\ stats' = st
  /\ opc' = "single"
  /\ UNCHANGED result

\* _crack_multi up to the submission of every chunk to the executor.
CallMulti(pw, st) ==
  /\ calls' = Append(calls, "multi")
  /\ shared' = FreshShared
  /\ lock' = 0
  /\ pwWrites' = 0
  /\ timedOut' = {}
  /\ IF chunk_size = 0
     THEN \* range(0, len(passwords), 0) raises ValueError
          /\ Raise("range() arg 3 must not be zero", st)
          /\ UNCHANGED <<chunks, wpc, widx, late, waitIdx, tmp, trace>>
     ELSE /\ chunks' = Chunks(pw, chunk_size)
          /\ wpc' = [k \in DOMAIN Chunks(pw, chunk_size) |-> "queued"]
          /\ widx' = [k \in DOMAIN Chunks(pw, chunk_size) |-> 1]
          /\ late' = [k \in DOMAIN Chunks(pw, chunk_size) |-> 0]
          /\ tmp' = [k \in DOMAIN Chunks(pw, chunk_size) |-> 0]
          /\ trace' = [k \in DOMAIN Chunks(pw, chunk_size) |-> FreshTrace]
          /\ waitIdx' = 1
          /\ stats' = st
          /\ opc' = IF Len(Chunks(pw, chunk_size)) = 0 THEN "shutdown" ELSE "wait"
          /\ UNCHANGED result

\* crack, lines 136-152: reset the statistics, load the wordlist, dispatch.
CrackStart ==
  /\ opc = "start"
  /\ IF passwords = <<>>
     THEN Raise("No valid passwords in wordlist", FreshStats) /\ UNCHANGED phase
     ELSE IF mode = "single" THEN CallSingle(passwords, FreshStats)
     ELSE IF mode = "multi" THEN CallMulti(passwords, FreshStats)
     ELSE CallSingle(Slice(passwords, 0, PrefixLen), FreshStats)
  /\ UNCHANGED <<config, elapsed, probes, incs>>

\* SingleReturn as it would be if _crack_hybrid ignored the prefix result and
\* always went on to _crack_multi.
SingleReturnAlwaysMulti ==
  /\ opc = "single"
  /\ wpc[1] = "done"
  /\ IF mode = "single"
     THEN Return(shared.password, stats) /\ UNCHANGED phase
     ELSE CallMulti(Slice(passwords, PrefixLen, Len(passwords)), stats)
  /\ UNCHANGED <<config, elapsed, probes, incs>>

\* _crack_single returns shared_data['password']; in single mode crack
\* returns it, in hybrid mode _crack_hybrid returns it if truthy and
\* otherwise calls _crack_multi on passwords[100:].
SingleReturn ==
  /\ opc = "single"
  /\ wpc[1] = "done"
  /\ IF mode = "single" \/ (shared.password # None /\ shared.password # EmptyStr)
     THEN Return(shared.password, stats) /\ UNCHANGED phase
     ELSE CallMulti(Slice(passwords, PrefixLen, Len(passwords)), stats)
  /\ UNCHANGED <<config, elapsed, probes, incs>>

AfterWait == IF waitIdx = Len(chunks) THEN "shutdown" ELSE "wait"

\* future.result(timeout=...) returns: the future is done.
WaitDone ==
  /\ opc = "wait"
  /\ wpc[waitIdx] = "done"
  /\ waitIdx' = waitIdx + 1
  /\ opc' = AfterWait
  /\ UNCHANGED <<config, calls, chunks, wpc, widx, late, shared, lock,
                 pwWrites, timedOut, stats, result, elapsed, probes, tmp,
                 trace, incs>>

\* WaitTimeout as it would be if a wait that times out also ended the chunk's
\* worker where it stands (a worker inside a locked block is left alone).
WaitTimeoutAbandons ==
  /\ opc = "wait"
  /\ wpc[waitIdx] # "done"
  /\ Cardinality(timedOut) < MaxTimeouts
  /\ stats' = [stats EXCEPT !.errors = Append(@, EmptyStr)]
  /\ timedOut' = timedOut \cup {waitIdx}
  /\ waitIdx' = waitIdx + 1
  /\ opc' = AfterWait
  /\ wpc' = IF lock = waitIdx THEN wpc ELSE [wpc EXCEPT ![waitIdx] = "done"]
  /\ UNCHANGED <<config, calls, chunks, widx, late, shared, lock,
                 pwWrites, result, elapsed, probes, tmp, trace, incs>>

\* future.result(timeout=...) raises TimeoutError: the future is not done;
\* the handler appends str(e), which is the empty string.
WaitTimeout ==
  /\ opc = "wait"
  /\ wpc[waitIdx] # "done"
  /\ Cardinality(timedOut) < MaxTimeouts
  /\ stats' = [stats EXCEPT !.errors = Append(@, EmptyStr)]
  /\ timedOut' = timedOut \cup {waitIdx}
  /\ waitIdx' = waitIdx + 1
  /\ opc' = AfterWait
  /\ UNCHANGED <<config, calls, chunks, wpc, widx, late, shared, lock,
                 pwWrites, result, elapsed, probes, tmp, trace, incs>>

\* Shutdown as it would be with shutdown(wait=False): unfinished workers are
\* left behind.
ShutdownWithoutJoin ==
  /\ opc = "shutdown"
  /\ Return(shared.password, stats)
  /\ UNCHANGED <<config, phase, elapsed, probes, incs>>

\* Shutdown as it would be if the workers whose wait timed out were not
\* joined.
ShutdownJoinsWaitedOnly ==
  /\ opc = "shutdown"
  /\ \A i \in Workers \ timedOut : wpc[i] = "done"
  /\ Return(shared.password, stats)
  /\ UNCHANGED <<config, phase, elapsed, probes, incs>>

\* Leaving "with ThreadPoolExecutor(...)": shutdown(wait=True) joins every
\* worker; then _crack_multi returns shared_data['password'] and crack returns.
Shutdown ==
  /\ opc = "shutdown"
  /\ \A i \in Workers : wpc[i] = "done"
  /\ Return(shared.password, stats)
  /\ UNCHANGED <<config, phase, elapsed, probes, incs>>

\* The configured timeout runs out while a sequential phase is running.
Elapse ==
  /\ opc = "single"
  /\ ~elapsed
  /\ elapsed' = TRUE
  /\ UNCHANGED <<config, phase, opc, stats, result, probes, incs>>

\* ---- _worker ------------------------------------------------------------
Cur(i) == chunks[i][widx[i]]

Running == {j \in Workers : wpc[j] \notin {"queued", "done"}}

\* Start as it would be if the executor had a thread for every work item.
StartUnbounded(i) ==
  /\ wpc[i] = "queued"
  /\ \A j \in Workers : j < i => wpc[j] # "queued"
  /\ wpc' = [wpc EXCEPT ![i] = "open"]
  /\ trace' = [trace EXCEPT ![i].begunLate = shared.found]
  /\ UNCHANGED <<config, opc, calls, chunks, widx, late, shared, lock,
                 pwWrites, waitIdx, timedOut, stats, result, elapsed, probes,
                 tmp, incs>>

\* A pool thread takes the next work item (FIFO, at most self.threads threads)
\* and enters _worker.
Start(i) ==
  /\ wpc[i] = "queued"
  /\ \A j \in Workers : j < i => wpc[j] # "queued"
  /\ Cardinality(Running) < threads
  /\ wpc' = [wpc EXCEPT ![i] = "open"]
  /\ trace' = [trace EXCEPT ![i].begunLate = shared.found]
  /\ UNCHANGED <<config, opc, calls, chunks, widx, late, shared, lock,
                 pwWrites, waitIdx, timedOut, stats, result, elapsed, probes,
                 tmp, incs>>

\* open(self.file_path) and OfficeFile(f) succeed; the for loop begins.
Open(i) ==
  /\ wpc[i] = "open"
  /\ wpc' = [wpc EXCEPT ![i] = IF chunks[i] = <<>> THEN "done" ELSE "check"]
  /\ UNCHANGED <<config, opc, calls, chunks, widx, late, shared, lock,
                 pwWrites, waitIdx, timedOut, stats, result, elapsed, probes,
                 tmp, trace, incs>>

\* OpenFault as it would be if the worker's handler recorded nothing.
OpenFaultUnrecorded(i) ==
  /\ wpc[i] = "open"
  /\ \A j \in Workers : ~trace[j].faulted
  /\ wpc' = [wpc EXCEPT ![i] = "done"]
  /\ trace' = [trace EXCEPT ![i].faulted = TRUE]
  /\ UNCHANGED <<config, opc, calls, chunks, widx, late, shared, lock,
                 pwWrites, waitIdx, timedOut, stats, result, elapsed, probes,
                 tmp, incs>>

\* open(...) or OfficeFile(f) raises: the worker's handler records it.
OpenFault(i) ==
  /\ wpc[i] = "open"
  /\ Count(stats.errors, WorkerFault) < MaxFaults
  /\ wpc' = [wpc EXCEPT ![i] = "done"]
  /\ stats' = [stats EXCEPT !.errors = Append(@, WorkerFault)]
  /\ trace' = [trace EXCEPT ![i].faulted = TRUE]
  /\ UNCHANGED <<config, opc, calls, chunks, widx, late, shared, lock,
                 pwWrites, waitIdx, timedOut, result, elapsed, probes, tmp,
                 incs>>

\* Check as it would be without the early exit.
CheckNeverBreaks(i) ==
  /\ wpc[i] = "check"
  /\ wpc' = [wpc EXCEPT ![i] = "call"]
  /\ UNCHANGED <<config, opc, calls, chunks, widx, late, shared, lock,
                 pwWrites, waitIdx, timedOut, stats, result, elapsed, probes,
                 tmp, trace, incs>>

\* if shared_data['found']: break
Check(i) ==
  /\ wpc[i] = "check"
  /\ wpc' = [wpc EXCEPT ![i] = IF shared.found THEN "done" ELSE "call"]
  /\ UNCHANGED <<config, opc, calls, chunks, widx, late, shared, lock,
                 pwWrites, waitIdx, timedOut, stats, result, elapsed, probes,
                 tmp, trace, incs>>

\* _try_decrypt(password, office_file) is entered.
ProbeStart(i) ==
  /\ wpc[i] = "call"
  /\ wpc' = [wpc EXCEPT ![i] = "probing"]
  /\ probes' = probes + 1
  /\ late' = [late EXCEPT ![i] = IF shared.found THEN @ + 1 ELSE @]
  /\ UNCHANGED <<config, opc, calls, chunks, widx, shared, lock, pwWrites,
                 waitIdx, timedOut, stats, result, elapsed, tmp, trace, incs>>

\* ProbeReturn as it would be if a probe that recorded an error were taken
\* for a match.
ProbeReturnErrorIsMatch(i) ==
  /\ wpc[i] = "probing"
  /\ LET r == TryDecrypt(kind[Cur(i)], verify_hash) IN
       /\ stats' = [stats EXCEPT !.errors = @ \o r.errs]
       /\ wpc' = [wpc EXCEPT ![i] = IF r.ret \/ r.errs # <<>> THEN "setfound"
                                    ELSE "inc"]
  /\ trace' = [trace EXCEPT ![i].lateDone = IF shared.found THEN @ + 1 ELSE @]
  /\ UNCHANGED <<config, opc, calls, chunks, widx, late, shared, lock,
                 pwWrites, waitIdx, timedOut, result, elapsed, probes, tmp,
                 incs>>

\* ProbeReturn as it would be if an exception of the library calls left
\* _try_decrypt and reached the worker's handler.
ProbeReturnErrorEndsWorker(i) ==
  /\ wpc[i] = "probing"
  /\ LET r == TryDecrypt(kind[Cur(i)], verify_hash) IN
       /\ stats' = [stats EXCEPT !.errors = @ \o r.errs]
       /\ wpc' = [wpc EXCEPT ![i] = IF r.ret THEN "setfound"
                                    ELSE IF r.errs # <<>> THEN "done" ELSE "inc"]
  /\ trace' = [trace EXCEPT ![i].lateDone = IF shared.found THEN @ + 1 ELSE @]
  /\ UNCHANGED <<config, opc, calls, chunks, widx, late, shared, lock,
                 pwWrites, waitIdx, timedOut, result, elapsed, probes, tmp,
                 incs>>

\* _try_decrypt returns.
ProbeReturn(i) ==
  /\ wpc[i] = "probing"
  /\ LET r == TryDecrypt(kind[Cur(i)], verify_hash) IN
       /\ stats' = [stats EXCEPT !.errors = @ \o r.errs]
       /\ wpc' = [wpc EXCEPT ![i] = IF r.ret THEN "setfound" ELSE "inc"]
  /\ trace' = [trace EXCEPT ![i].lateDone = IF shared.found THEN @ + 1 ELSE @]
  /\ UNCHANGED <<config, opc, calls, chunks, widx, late, shared, lock,
                 pwWrites, waitIdx, timedOut, result, elapsed, probes, tmp,
                 incs>>

\* SetFound as it would be if it did not wait for the lock to be free.
SetFoundWithoutWaiting(i) ==
  /\ wpc[i] = "setfound"
  /\ lock' = i
  /\ shared' = [shared EXCEPT !.found = TRUE]
  /\ wpc' = [wpc EXCEPT ![i] = "setpw"]
  /\ UNCHANGED <<config, opc, calls, chunks, widx, late, pwWrites, waitIdx,
                 timedOut, stats, result, elapsed, probes, tmp, trace, incs>>

\* SetFound as it would be if the lock were released between the two
\* assignments.
SetFoundThenRelease(i) ==
  /\ wpc[i] = "setfound"
  /\ lock = 0
  /\ lock' = 0
  /\ shared' = [shared EXCEPT !.found = TRUE]
  /\ wpc' = [wpc EXCEPT ![i] = "setpw"]
  /\ UNCHANGED <<config, opc, calls, chunks, widx, late, pwWrites, waitIdx,
                 timedOut, stats, result, elapsed, probes, tmp, trace, incs>>

\* with lock: shared_data['found'] = True
SetFound(i) ==
  /\ wpc[i] = "setfound"
  /\ lock = 0
  /\ lock' = i
  /\ shared' = [shared EXCEPT !.found = TRUE]
  /\ wpc' = [wpc EXCEPT ![i] = "setpw"]
  /\ UNCHANGED <<config, opc, calls, chunks, widx, late, pwWrites, waitIdx,
                 timedOut, stats, result, elapsed, probes, tmp, trace, incs>>

\* SetPassword as it would be if the lock were not released.
SetPasswordKeepsLock(i) ==
  /\ wpc[i] = "setpw"
  /\ shared' = [shared EXCEPT !.password = Cur(i)]
  /\ pwWrites' = pwWrites + 1
  /\ wpc' = [wpc EXCEPT ![i] = "done"]
  /\ UNCHANGED <<config, opc, calls, chunks, widx, late, lock, waitIdx,
                 timedOut, stats, result, elapsed, probes, tmp, trace, incs>>

\* shared_data['password'] = password; the lock is released; break
SetPassword(i) ==
  /\ wpc[i] = "setpw"
  /\ shared' = [shared EXCEPT !.password = Cur(i)]
  /\ pwWrites' = pwWrites + 1
  /\ lock' = 0
  /\ wpc' = [wpc EXCEPT ![i] = "done"]
  /\ UNCHANGED <<config, opc, calls, chunks, widx, late, waitIdx, timedOut,
                 stats, result, elapsed, probes, tmp, trace, incs>>

\* AcquireInc as it would be without "with lock:" around the increment.
AcquireIncWithoutLock(i) ==
  /\ wpc[i] = "inc"
  /\ tmp' = [tmp EXCEPT ![i] = stats.attempts]
  /\ wpc' = [wpc EXCEPT ![i] = "incstore"]
  /\ UNCHANGED <<config, opc, calls, chunks, widx, late, shared, lock,
                 pwWrites, waitIdx, timedOut, stats, result, elapsed, probes,
                 trace, incs>>

\* with lock: the lock is taken, and "self.stats.attempts += 1" loads the
\* current value of stats.attempts
AcquireInc(i) ==
  /\ wpc[i] = "inc"
  /\ lock = 0
  /\ lock' = i
  /\ tmp' = [tmp EXCEPT ![i] = stats.attempts]
  /\ wpc' = [wpc EXCEPT ![i] = "incstore"]
  /\ UNCHANGED <<config, opc, calls, chunks, widx, late, shared, pwWrites,
                 waitIdx, timedOut, stats, result, elapsed, probes, trace,
                 incs>>

\* Increment as it would be if found were checked only before the first
\* candidate of a chunk.
IncrementSkipsCheck(i) ==
  /\ wpc[i] = "incstore"
  /\ stats' = [stats EXCEPT !.attempts = tmp[i] + 1]
  /\ tmp' = [tmp EXCEPT ![i] = 0]
  /\ incs' = incs + 1
  /\ lock' = 0
  /\ IF widx[i] = Len(chunks[i])
     THEN wpc' = [wpc EXCEPT ![i] = "done"] /\ UNCHANGED widx
     ELSE wpc' = [wpc EXCEPT ![i] = "call"] /\ widx' = [widx EXCEPT ![i] = @ + 1]
  /\ UNCHANGED <<config, opc, calls, chunks, late, shared, pwWrites, waitIdx,
                 timedOut, result, elapsed, probes, trace>>

\* "self.stats.attempts += 1" stores the loaded value plus one and the lock
\* is released; then the next candidate, or the end of the loop
Increment(i) ==
  /\ wpc[i] = "incstore"
  /\ stats' = [stats EXCEPT !.attempts = tmp[i] + 1]
  /\ tmp' = [tmp EXCEPT ![i] = 0]
  /\ incs' = incs + 1
  /\ lock' = 0
  /\ IF widx[i] = Len(chunks[i])
     THEN wpc' = [wpc EXCEPT ![i] = "done"] /\ UNCHANGED widx
     ELSE wpc' = [wpc EXCEPT ![i] = "check"] /\ widx' = [widx EXCEPT ![i] = @ + 1]
  /\ UNCHANGED <<config, opc, calls, chunks, late, shared, pwWrites, waitIdx,
                 timedOut, result, elapsed, probes, trace>>

\* one step of some worker
SomeStart == \E i \in Workers : Start(i)
SomeOpen == \E i \in Workers : Open(i)
SomeOpenFault == \E i \in Workers : OpenFault(i)
SomeCheck == \E i \in Workers : Check(i)
SomeProbeStart == \E i \in Workers : ProbeStart(i)
SomeProbeReturn == \E i \in Workers : ProbeReturn(i)
SomeSetFound == \E i \in Workers : SetFound(i)
SomeSetPassword == \E i \in Workers : SetPassword(i)
SomeAcquireInc == \E i \in Workers : AcquireInc(i)
SomeIncrement == \E i \in Workers : Increment(i)

Next ==
  \/ CrackStart
  \/ SingleReturn
  \/ WaitDone
  \/ WaitTimeout
  \/ Shutdown
  \/ Elapse
  \/ SomeStart
  \/ SomeOpen
  \/ SomeOpenFault
  \/ SomeCheck
  \/ SomeProbeStart
  \/ SomeProbeReturn
  \/ SomeSetFound
  \/ SomeSetPassword
  \/ SomeAcquireInc
  \/ SomeIncrement

Spec == Init /\ [][Next]_vars

\* ---- main1.py: crack_multi_thread ----------------------------------------
\* The simple cracker is a separate program; its state is the record simple:
\*   pc          : start, spawn, join, returned, raised
\*   passwords   : the wordlist
\*   num_threads : the argument
\*   match       : the candidate try_password accepts, or None
\*   chunks      : password_chunks
\*   tpc         : thread -> new, check, try, done
\*   tidx        : thread -> index in its chunk of the current password
\*   found       : found_password['value']
\*   ret         : the returned password
SimpleThreads == DOMAIN simple.chunks

\* chunk_size = len(passwords) // num_threads
SimpleChunkSize(pw, nt) == Len(pw) \div nt

InitSimple ==
  /\ \E n \in 1..MaxSimpleLen, nt \in 1..MaxSimpleThreads :
     \E m \in 0..n :
       simple = [pc |-> "start",
                 passwords |-> [i \in 1..n |-> Cand(i)],
                 num_threads |-> nt,
                 match |-> IF m = 0 THEN None ELSE Cand(m),
                 chunks |-> <<>>, tpc |-> <<>>, tidx |-> <<>>,
                 found |-> None, ret |-> None]
  /\ mode = "single"
  /\ threads_arg = 1
  /\ threads = 1
  /\ chunk_size = 1
  /\ verify_hash = TRUE
  /\ passwords = <<>>
  /\ kind = <<>>
  /\ Constructed

\* lines 61-77: the chunk size and the list of chunks; range(0, n, 0) raises
\* ValueError, which nothing in crack_multi_thread catches.
SimpleSplit ==
  /\ simple.pc = "start"
  /\ LET cs == SimpleChunkSize(simple.passwords, simple.num_threads) IN
       IF cs = 0
       THEN simple' = [simple EXCEPT !.pc = "raised"]
       ELSE simple' = [simple EXCEPT
                         !.pc = "spawn",
                         !.chunks = Chunks(simple.passwords, cs),
                         !.tpc = [k \in DOMAIN Chunks(simple.passwords, cs) |-> "new"],
                         !.tidx = [k \in DOMAIN Chunks(simple.passwords, cs) |-> 1]]
  /\ UNCHANGED cracker

\* lines 81-84: one Thread per chunk is created and started, in order.
SimpleThreadStart ==
  /\ simple.pc = "spawn"
  /\ LET t == CHOOSE k \in SimpleThreads :
                 simple.tpc[k] = "new" /\ \A j \in 1..(k - 1) : simple.tpc[j] # "new"
     IN simple' = [simple EXCEPT
                     !.tpc[t] = "check",
                     !.pc = IF t = Len(simple.chunks) THEN "join" ELSE "spawn"]
  /\ UNCHANGED cracker

\* worker, lines 67-68: if found_password['value']: break
SimpleWorkerCheck(t) ==
  /\ simple.tpc[t] = "check"
  /\ simple' = [simple EXCEPT
                  !.tpc[t] = IF simple.found # None THEN "done" ELSE "try"]
  /\ UNCHANGED cracker

\* worker, lines 69-74: try_password; on success the password is stored
\* under the lock and the loop ends; otherwise the progress bar is updated
\* under the lock and the loop goes on.
SimpleWorkerTry(t) ==
  /\ simple.tpc[t] = "try"
  /\ IF simple.chunks[t][simple.tidx[t]] = simple.match
     THEN simple' = [simple EXCEPT !.found = simple.chunks[t][simple.tidx[t]],
                                  !.tpc[t] = "done"]
     ELSE IF simple.tidx[t] = Len(simple.chunks[t])
     THEN simple' = [simple EXCEPT !.tpc[t] = "done"]
     ELSE simple' = [simple EXCEPT !.tpc[t] = "check", !.tidx[t] = @ + 1]
  /\ UNCHANGED cracker

\* lines 87-90: every thread is joined; the pair is returned.
SimpleJoin ==
  /\ simple.pc = "join"
  /\ \A t \in SimpleThreads : simple.tpc[t] = "done"
  /\ simple' = [simple EXCEPT !.pc = "returned", !.ret = simple.found]
  /\ UNCHANGED cracker

SomeSimpleWorkerCheck == \E t \in SimpleThreads : SimpleWorkerCheck(t)
SomeSimpleWorkerTry == \E t \in SimpleThreads : SimpleWorkerTry(t)

NextSimple ==
  \/ SimpleSplit
  \/ SimpleThreadStart
  \/ SomeSimpleWorkerCheck
  \/ SomeSimpleWorkerTry
  \/ SimpleJoin

SpecSimple == InitSimple /\ [][NextSimple]_vars

\* ---- fair scheduling ---------------------------------------------------
\* The run does not stop while some thread of it can take a step: a probe
\* that was entered returns, a runnable worker or the orchestrator is
\* eventually scheduled.
\* The inputs are those of Init in which only the last two candidates of the
\* wordlist may be other than wrong passwords.
InitFair ==
  /\ Init
  /\ \A i \in 1..(Len(passwords) - 2) : kind[Cand(i)] = "invalid"

FairSpec == InitFair /\ [][Next]_vars /\ WF_vars(Next)

\* ---- the threads argument over its whole range -------------------------
\* Thread counts below, inside and above the range 1..32 that __init__
\* clamps to; one candidate per chunk, and only the last candidate of the
\* list may be other than a wrong password.
WideThreadArgs == {-1, 0, 2, ThreadCap, ThreadCap + 1}

InitThreads ==
  /\ mode \in Modes
  /\ threads_arg \in WideThreadArgs
  /\ threads = ClampThreads(threads_arg)
  /\ chunk_size = 1
  /\ verify_hash = TRUE
  /\ \E n \in 1..MaxShort :
       /\ passwords = [i \in 1..n |-> Cand(i)]
       /\ kind \in KindMaps(n, TRUE)
       /\ \A i \in 1..(n - 1) : kind[Cand(i)] = "invalid"
  /\ Constructed
  /\ simple = SimpleOff

SpecThreads == InitThreads /\ [][Next]_vars

\* ---- vocabulary of the properties ----------------------------------------
Returned == opc = "returned"

\* the probe reports a match for candidate c
Matching(c) == TryDecrypt(kind[c], verify_hash).ret

\* the library raises an Exception other than InvalidKeyError for c
Erroring(c) == kind[c] = "error"

Range(s) == {s[j] : j \in DOMAIN s}

HasMatch(s) == \E j \in DOMAIN s : Matching(s[j])

\* 1-based position of the first matching candidate of s
FirstMatchPos(s) == CHOOSE j \in DOMAIN s : Matching(s[j]) /\ \A h \in 1..(j - 1) : ~Matching(s[h])

NoProbeErrors == \A c \in Range(passwords) : ~Erroring(c)

NoWorkerFault == Count(stats.errors, WorkerFault) = 0

Prefix == Slice(passwords, 0, PrefixLen)
Remainder == Slice(passwords, PrefixLen, Len(passwords))

\* ---- C1 -------------------------------------------------------------------
\* C1: in one parallel run shared_data['password'] is written at most once
\* (and found set at most once): a worker whose probe matches after another
\* worker has set found performs no write.
C1_PasswordWrittenAtMostOnce ==
  (calls # <<>> /\ calls[Len(calls)] = "multi") => pwWrites <= 1

\* ---- C2 -------------------------------------------------------------------
\* C2: sequential mode, first matching candidate at 0-based position k, no
\* probe errors: crack returns that candidate and stats.attempts = k + 1.
C2_SequentialCountsTheMatch ==
  (Returned /\ mode = "single" /\ HasMatch(passwords) /\ NoProbeErrors /\ NoWorkerFault)
    => /\ result = passwords[FirstMatchPos(passwords)]
       /\ stats.attempts = FirstMatchPos(passwords)

\* ---- C3 -------------------------------------------------------------------
\* C3: in parallel mode, when a unit's wait has timed out, the orchestrator
\* does not wait for that unit to finish: once the loop of waits is over,
\* crack can return at once, and it returns None.
C3_ReturnsWithoutWaitingForAbandoned ==
  (opc = "shutdown" /\ timedOut # {}) => \A i \in timedOut : wpc[i] = "done"

\* ---- C4 -------------------------------------------------------------------
\* C4: no candidate matches, chunk_size positive, no probe errors, no worker
\* faults: in every mode crack returns None with stats.attempts equal to the
\* number of candidates, also in hybrid mode when the remainder is empty.
C4_NoMatchExhaustsEveryCandidate ==
  (Returned /\ ~HasMatch(passwords) /\ chunk_size > 0 /\ NoProbeErrors /\ NoWorkerFault)
    => /\ result = None
       /\ stats.attempts = Len(passwords)

\* hybrid mode on a non-empty wordlist no longer than the prefix has returned:
\* the parallel phase ran on an empty remainder
C4_Witness ==
  /\ Returned /\ mode = "hybrid"
  /\ Len(passwords) \in 1..PrefixLen
  /\ ~HasMatch(passwords) /\ NoProbeErrors /\ NoWorkerFault
  /\ calls = <<"single", "multi">> /\ chunks = <<>>
  /\ result = None /\ stats.attempts = Len(passwords)

\* ---- C5 -------------------------------------------------------------------
\* C5: with verification disabled, a candidate for which key loading and
\* decryption succeed is reported by _try_decrypt as a match (the worker does
\* not count it as a failed attempt), and crack returns such a candidate.
C5_NoVerifyStillMatches ==
  /\ \A i \in Workers :
       (~verify_hash /\ wpc[i] = "inc") => kind[Cur(i)] \notin {"ok", "empty"}
  /\ (Returned /\ ~verify_hash /\ mode = "single" /\ NoWorkerFault
        /\ \E c \in Range(passwords) : kind[c] \in {"ok", "empty"})
       => result # None

\* ---- C6 -------------------------------------------------------------------
\* C6: when crack returns, stats.attempts equals the number of _try_decrypt
\* invocations executed during the run (matching, non-matching and erroring).
C6_AttemptsEqualsProbes ==
  Returned => stats.attempts = probes

\* ---- C7 -------------------------------------------------------------------
\* C7 (as claimed): no worker starts a probe in a state where
\* shared_data['found'] is already True.
C7_NoProbeStartsOnceFound ==
  \A i \in Workers : late[i] = 0

\* C7 (amended): a worker starts a probe only after its own check read found
\* as False; another worker may set found between that check and the start of
\* the probe, so a worker starts at most one probe while found is already
\* True, and none after a check that read True.
C7_AtMostOneLateProbePerWorker ==
  \A i \in Workers : late[i] <= 1

\* a worker has started a probe although another worker had already set found
C7_Witness ==
  \E i \in Workers : late[i] = 1 /\ wpc[i] = "probing" /\ shared.found

\* ---- C8 -------------------------------------------------------------------
\* C8: in a sequential phase (single mode, or the prefix phase of hybrid
\* mode), once the configured timeout has elapsed without a match no further
\* candidate is probed.
C8_NoProbeAfterTimeoutInSequentialPhase ==
  [][(opc = "single" /\ elapsed /\ ~shared.found) => probes' = probes]_vars

\* ---- C9 -------------------------------------------------------------------
\* what a sequential run over s returns when its worker does not fault
SeqResult(s) == IF HasMatch(s) THEN s[FirstMatchPos(s)] ELSE None

\* what a parallel run over s may return when no worker faults
ParResults(s) == IF HasMatch(s) THEN {c \in Range(s) : Matching(c)} ELSE {None}

RECURSIVE Flatten(_)
Flatten(ss) == IF ss = <<>> THEN <<>> ELSE Head(ss) \o Flatten(Tail(ss))

\* the list the last call of _crack_multi was given
ChunkedList == IF mode = "multi" THEN passwords ELSE Remainder

InMulti == calls # <<>> /\ calls[Len(calls)] = "multi" /\ chunk_size > 0

\* C10: for a positive chunk_size the chunks of _crack_multi are non-empty, at
\* most chunk_size long, and their concatenation in submission order is the
\* list itself (contiguous, no overlap, no gap); each chunk has one worker.
C10_ChunksPartitionTheList ==
  InMulti =>
    /\ Flatten(chunks) = ChunkedList
    /\ \A k \in DOMAIN chunks : Len(chunks[k]) \in 1..chunk_size
    /\ DOMAIN wpc = DOMAIN chunks

\* a list whose length is not a multiple of chunk_size has been chunked
C10_Witness ==
  /\ InMulti /\ opc = "wait"
  /\ Len(chunks) = 2 /\ Len(chunks[1]) = 2 /\ Len(chunks[2]) = 1

\* ---- C11 ----------------------------------------------------------------
\* C11: whatever threads argument the cracker was constructed with, the
\* number of workers that are executing at the same time never exceeds
\* max(1, min(threads, 32)); a chunk beyond that number stays queued until a
\* pool thread is free.
C11_RunningWithinClamp ==
  LET cap == IF threads_arg < 1 THEN 1
             ELSE IF threads_arg > ThreadCap THEN ThreadCap ELSE threads_arg
  IN /\ threads = cap
     /\ Cardinality(Running) <= cap

\* an argument below 1 was clamped up to 1: one worker executes and another
\* chunk waits in the queue
C11_Witness ==
  /\ opc = "wait"
  /\ threads_arg < 1
  /\ Cardinality(Running) = threads
  /\ \E i \in Workers : wpc[i] = "queued"
  /\ \E i \in Workers : wpc[i] = "probing"

\* ---- C12 ----------------------------------------------------------------
\* C12: a call of crack always ends by returning: whatever the mode, the
\* probe errors, the worker faults, the wait timeouts and the wordlist
\* (empty included), the run can go on until crack has returned, and then
\* stats.success is true exactly when the result is not None, and
\* stats.found_password is the result, or "" when the result is None.
C12_CrackReturnsConsistentStats ==
  /\ ~Returned => ENABLED Next
  /\ Returned =>
       /\ stats.success = (result # None)
       /\ stats.found_password = IF result = None THEN EmptyStr ELSE result

\* crack has returned a password from a run in which a worker faulted and a
\* wait timed out
C12_Witness ==
  /\ Returned
  /\ result # None
  /\ Count(stats.errors, WorkerFault) > 0
  /\ Count(stats.errors, EmptyStr) > 0

\* ---- C13 ----------------------------------------------------------------
PasswordSet == shared.password # None /\ shared.password # EmptyStr

\* C13 as stated: in every state shared_data['password'] is a non-empty
\* string if and only if shared_data['found'] is True.
C13_PasswordIffFound == shared.found <=> PasswordSet

\* C13: whenever the lock is free, and so whenever _crack_single or
\* _crack_multi reads the result, shared_data['password'] is a non-empty
\* string if and only if shared_data['found'] is True; and found never
\* reverts from True to False.
C13_PasswordIffFoundWhenLockFree ==
  [][ /\ (lock' = 0) => (shared'.found <=> PasswordSet')
      /\ Returned' => (lock' = 0)
      /\ shared.found => shared'.found ]_vars

\* found and password are both set and the lock is free while another
\* worker is about to read found
C13_Witness ==
  /\ lock = 0
  /\ shared.found /\ PasswordSet
  /\ \E i \in Workers : wpc[i] = "check"

\* ---- C14 ----------------------------------------------------------------
\* a _crack_multi call is between the submission of its chunks and its return
InParallelRun == InMulti /\ opc \in {"wait", "shutdown"}

\* C14: during a parallel run every change of the shared statistics (an
\* append to stats.errors as well as an increment of stats.attempts) is made
\* by a worker that holds the shared lock while it makes it.
C14_StatsChangeOnlyUnderLock ==
  [][ (InParallelRun /\ stats' # stats /\ ~Returned') =>
        \E i \in Workers : lock = i /\ wpc'[i] # wpc[i] ]_vars

\* ---- C15 ----------------------------------------------------------------
\* workers between the entry of a probe and the end of what follows it
AfterProbeStart ==
  {i \in Workers : wpc[i] \in {"probing", "inc", "incstore", "setfound", "setpw"}}

\* C15: under every interleaving stats.attempts equals the number of
\* completed "attempts += 1" statements (none is lost), every probe that has
\* returned no-match is either counted or its worker has not yet completed
\* the increment, and the counter changes only by steps of one.
C15_NoLostIncrement ==
  [][ /\ stats'.attempts = incs'
      /\ stats'.attempts \in {stats.attempts, stats.attempts + 1}
      /\ probes' = stats'.attempts + Cardinality(AfterProbeStart') + pwWrites' ]_vars

\* one worker is inside the locked increment while another, whose probe has
\* also returned no-match, waits for the lock
C15_Witness ==
  /\ stats.attempts >= 1
  /\ \E i, j \in Workers : wpc[i] = "incstore" /\ wpc[j] = "inc"

\* ---- C16 ----------------------------------------------------------------
\* C16: once found is True a running worker completes at most one further
\* probe and then starts no other; a worker that begins its chunk when found
\* is already True performs no probe; and a worker ends before the end of
\* its chunk only by its own break (found is True) or by its own fault.
C16_AtMostOneProbeCompletedAfterFound ==
  \A i \in Workers :
    /\ trace[i].lateDone <= 1
    /\ (trace[i].lateDone = 1) => wpc[i] \notin {"call", "probing"}
    /\ trace[i].begunLate =>
         /\ wpc[i] \in {"open", "check", "done"}
         /\ widx[i] = 1 /\ late[i] = 0 /\ trace[i].lateDone = 0
    /\ (wpc[i] = "done" /\ chunks[i] # <<>> /\ widx[i] < Len(chunks[i])) =>
         (shared.found \/ trace[i].faulted)

\* one worker has completed the probe that was in progress when found became
\* True and has stopped; another began its chunk afterwards and has stopped
\* without probing
C16_Witness ==
  \E i, j \in Workers :
    /\ trace[i].lateDone = 1 /\ wpc[i] = "done"
    /\ trace[j].begunLate /\ wpc[j] = "done" /\ ~trace[j].faulted

\* ---- C17 ----------------------------------------------------------------
\* the entries _try_decrypt appends for one candidate whose library calls
\* raise an exception other than InvalidKeyError
ErrorEntries == {"Error with " \o Encodings[e] : e \in DOMAIN Encodings}

\* C17: when the probe of a candidate ends with a probe error, the error is
\* recorded in stats.errors and the worker takes the no-match path; its
\* increment counts the candidate in stats.attempts and leads to the next
\* candidate of the chunk, and neither step ends the run.  A run without a
\* match and without a worker fault has counted every candidate.
C17_ProbeErrorIsRecordedAndSkipped ==
  [][ /\ \A i \in Workers :
           (wpc[i] = "probing" /\ wpc'[i] # "probing" /\ Erroring(Cur(i))) =>
             /\ wpc'[i] = "inc"
             /\ \A m \in ErrorEntries :
                  Count(stats'.errors, m) = Count(stats.errors, m) + 1
             /\ opc' = opc
      /\ \A i \in Workers :
           (wpc[i] = "incstore" /\ wpc'[i] # "incstore" /\ Erroring(Cur(i))) =>
             /\ stats'.attempts = stats.attempts + 1
             /\ widx[i] < Len(chunks[i]) =>
                  (wpc'[i] = "check" /\ widx'[i] = widx[i] + 1)
             /\ opc' = opc
      /\ (Returned' /\ result' = None /\ NoWorkerFault' /\ chunk_size > 0) =>
           stats'.attempts = Len(passwords) ]_vars

\* a worker is probing the candidate that follows one whose probe ended with
\* a probe error
C17_Witness ==
  \E i \in Workers :
    /\ wpc[i] = "probing"
    /\ widx[i] >= 2
    /\ Erroring(chunks[i][widx[i] - 1])
    /\ stats.attempts >= 1

\* ---- C18 ----------------------------------------------------------------
Faulted == {i \in Workers : trace[i].faulted}

\* the candidates of the chunks whose worker did not fault
UnfaultedCandidates ==
  UNION {{<<i, k>> : k \in DOMAIN chunks[i]} : i \in Workers \ Faulted}

\* some thread of the run can take a step
CanGoOn == ENABLED Next

\* C18: the step in which a worker faults appends the fault to stats.errors
\* and changes nothing else: found and password, the other workers and the
\* orchestrator are as before.  The run goes on to the return; then every
\* worker that did not fault has gone through its chunk to the end or to its
\* break on found, and a one-phase run that returns None has counted every
\* candidate of every chunk whose worker did not fault.
C18_FaultStaysInItsChunk ==
  [][ /\ \A i \in Workers :
           (i \in Faulted' /\ i \notin Faulted /\ calls' = calls) =>
             /\ stats' = [stats EXCEPT !.errors = Append(@, WorkerFault)]
             /\ shared' = shared
             /\ \A j \in Workers \ {i} : wpc'[j] = wpc[j] /\ widx'[j] = widx[j]
             /\ opc' = opc /\ result' = result
      /\ (Faulted' # {} /\ ~Returned') => CanGoOn'
      /\ (Returned' /\ Faulted' # {}) =>
           /\ \A j \in Workers \ Faulted' :
                /\ wpc'[j] = "done"
                /\ widx'[j] = Len(chunks'[j]) \/ shared'.found
           /\ (Len(calls') = 1 /\ result' = None) =>
                stats'.attempts = Cardinality(UnfaultedCandidates') ]_vars

\* crack has returned the password found by one worker although the worker
\* of another chunk faulted
C18_Witness ==
  /\ Returned
  /\ result # None
  /\ \E i, j \in Workers :
       /\ trace[i].faulted
       /\ ~trace[j].faulted /\ Cur(j) = result
  /\ Count(stats.errors, WorkerFault) = 1

\* ---- C19 ----------------------------------------------------------------
\* workers inside a "with lock:" block
InCritical == {i \in Workers : wpc[i] \in {"setpw", "incstore"}}

\* C19: the lock is held exactly by the worker that is inside one of the two
\* "with lock:" blocks (the found/password assignments, the attempts
\* increment), so at most one worker is in a critical section, and a worker
\* that is inside a probe, or on its way to one, does not hold the lock.
C19_LockNeverHeldAcrossProbe ==
  /\ lock \in Workers \cup {0}
  /\ \A i \in Workers : (lock = i) <=> (i \in InCritical)
  /\ Cardinality(InCritical) <= 1
  /\ \A i \in Workers : wpc[i] \in {"check", "call", "probing"} => lock # i

\* one worker is inside the critical section of a match while another is
\* inside its probe
C19_Witness ==
  \E i, j \in Workers :
    /\ i # j
    /\ lock = i /\ wpc[i] = "setpw"
    /\ wpc[j] = "probing"

\* ---- C20 ----------------------------------------------------------------
\* C20: for every non-empty wordlist and every num_threads >= 1,
\* crack_multi_thread does not raise, starts at most num_threads threads,
\* and the chunks of the threads together hold every password exactly once.
C20_SimpleMultiThreadSplitsWithinThreads ==
  /\ simple.pc # "raised"
  /\ simple.pc \in {"spawn", "join", "returned"} =>
       /\ Len(simple.chunks) <= simple.num_threads
       /\ Flatten(simple.chunks) = simple.passwords

\* ---- C21 ----------------------------------------------------------------
\* C21: when a parallel phase (parallel mode, or the parallel phase of hybrid
\* mode) is given a list in which the probe matches some candidate and no
\* worker faults, crack returns a password and not None, whichever waits of
\* the orchestrator timed out: at the return every chunk has been run to its
\* end or to its break on found.
C21_ParallelMatchIsReturned ==
  (Returned /\ InMulti /\ HasMatch(ChunkedList) /\ NoWorkerFault) =>
    /\ result # None
    /\ shared.found
    /\ \A i \in Workers : wpc[i] = "done"

\* crack has returned the password found by a worker whose future the
\* orchestrator had given up waiting for
C21_Witness ==
  /\ Returned /\ InMulti /\ NoWorkerFault
  /\ result # None
  /\ \E i \in timedOut : Cur(i) = result

\* ---- C22 ----------------------------------------------------------------
\* C22: in every mode and under every interleaving, what a worker stores in
\* shared_data['password'], and so every non-None result crack returns, is a
\* candidate of the wordlist for which the probe reported a match; a
\* candidate whose probe reported no-match or an error is never returned.
C22_ResultIsAMatchingCandidate ==
  /\ shared.password # None =>
       (shared.password \in Range(passwords) /\ Matching(shared.password))
  /\ (Returned /\ result # None) =>
       /\ result \in Range(passwords)
       /\ Matching(result)
       /\ ~Erroring(result)

\* crack has returned a password after two workers both wrote the result
C22_Witness ==
  /\ Returned
  /\ result # None
  /\ pwWrites = 2

\* ---- C23 ----------------------------------------------------------------
\* C23: when crack has returned, in any mode and also after waits that timed
\* out, every worker of the run has finished and the lock is free; nothing
\* of the run can still take a step, so the returned result and statistics
\* (and shared_data) do not change afterwards.
C23_NoWorkerOutlivesTheReturn ==
  Returned =>
    /\ \A i \in Workers : wpc[i] = "done"
    /\ lock = 0
    /\ ~ENABLED Next

\* crack has returned from a parallel phase in which a wait had timed out
\* and the worker concerned went on to count candidates
C23_Witness ==
  /\ Returned
  /\ result = None
  /\ \E i \in timedOut : wpc[i] = "done" /\ ~trace[i].faulted
  /\ stats.attempts >= 1

\* ---- C24 ----------------------------------------------------------------
\* C24: under fair scheduling, with every probe returning, crack eventually
\* returns in every mode, for every wordlist, chunk_size and thread count:
\* no worker waits for the lock for ever and the orchestrator does not wait
\* for ever on a future or at the executor's exit.
C24_CrackEventuallyReturns == <>Returned

\* hybrid mode has returned after both of its phases, the second with a
\* wait that timed out
C24_Witness ==
  /\ Returned
  /\ calls = <<"single", "multi">>
  /\ Workers # {}
  /\ timedOut # {}
====
